---- MODULE Spec2Model ----
(***************************************************************************)
(* A model of the review bot of lightningdevkit/ldk-bot: the record store  *)
(* (PullRequest and Review rows), the webhook handlers of GitHubBot, the   *)
(* reviewer selector, the second-reviewer route and the reminder loop.     *)
(*                                                                         *)
(* Time is counted in minutes since a Monday 00:00 UTC.  The code host is  *)
(* an environment: what it answers to a call (status code, the PR detail   *)
(* it returns) is an input of the action that makes the call.              *)
(***************************************************************************)
EXTENDS Integers, Sequences, FiniteSets, Bags, TLC

VARIABLES
    prs,        \* the pull_request table: a function from the keys it holds to rows
    reviews,    \* the review table: a bag of rows (the generated id is left out)
    prompts,    \* code host: the "ready for a second reviewer?" comments on each PR
    now,        \* datetime.utcnow(), in minutes
    inflight,   \* _add_pending_review calls between their query and their commit
    loop,       \* the reminder thread: "running", or "stopped" once it has ended
    last        \* history: the operation that made the last step, and what it did

vars == <<prs, reviews, prompts, now, inflight, loop, last>>

None == "None"
\* a timestamp column that is NULL
Null == 0 - 1

----------------------------------------------------------------------------
(* Bounds of the model *)

\* rows the review table may hold
MaxReviews == 2
\* Tick steps the clock may take
MaxTicks == 1
\* concurrent _add_pending_review calls
MaxInflight == 2

----------------------------------------------------------------------------
(* Program constants *)

RL == "lightningdevkit/rust-lightning"
NODE == "lightningdevkit/ldk-node"

MIN_PR_ID == [repo_name \in {RL, NODE} |-> IF repo_name = RL THEN 3634 ELSE 512]

Repos == DOMAIN MIN_PR_ID

\* PRStatus
PENDING_REVIEWER_CHOICE == "PENDING_REVIEWER_CHOICE"
DRAFT == "DRAFT"
PENDING_REVIEW == "PENDING_REVIEW"
REVIEWED == "REVIEWED"
CLOSED == "CLOSED"
PRStatus == {PENDING_REVIEWER_CHOICE, DRAFT, PENDING_REVIEW, REVIEWED, CLOSED}

\* timedelta(minutes=10) of check_and_send_reminders
ReviewerThresholdMinutes == 10
\* timedelta(days=7) of get_recent_reviews
RecentDays == 7
\* reminder_threshold = now - timedelta(days=2)
ReminderThresholdDays == 2
MinutesPerDay == 24 * 60

\* the first three names of the list get_repo_collaborators returns
get_repo_collaborators(repo_name) == {"arik-so", "jkczyz", "TheBlueMatt"}

----------------------------------------------------------------------------
(* The inputs the environment draws from *)

\* a login that is no collaborator
Outsider == "contributor"
Users == get_repo_collaborators(RL) \cup {Outsider}

\* one number below both floors, one at or above both
PrNumbers == {511, 3634}
AllPRKeys == [repo : Repos, number : PrNumbers]

\* the PR the events of Spec are about
PRKeys == {[repo |-> RL, number |-> 3634]}

\* pr['user']['login']: the author of a PR never changes
AuthorOf(pr) == IF pr.repo = RL THEN "TheBlueMatt" ELSE Outsider

\* the logins a webhook names as requested reviewer
RequestedUsers == {"arik-so", "jkczyz"}
\* the logins a webhook names as the reviewer of a submitted review
ReviewUsers == {"arik-so", "TheBlueMatt"}

\* pr['requested_reviewers'] of a payload or of a fetched PR
RequestedSets == {{}, {"arik-so"}, {"arik-so", "jkczyz"}}

TickMinutes == RecentDays * MinutesPerDay

----------------------------------------------------------------------------
(* The record store and the session *)

\* a pull_request row (pr_title and the reminder columns are never read)
PullRequest(status, created_at, initial_comment_id) ==
    [status |-> status, created_at |-> created_at,
     initial_comment_id |-> initial_comment_id]

\* a review row.  id is left out (the table is a bag); requested_at and
\* review_url are left out too: the bot writes them and never reads them
\* (review_duration, which reads requested_at, is modelled on its own inputs)
Review(pr, reviewer, completed_at) ==
    [repo_name |-> pr.repo, pr_number |-> pr.number, reviewer |-> reviewer,
     completed_at |-> completed_at]

\* Review.query.filter_by(pr_number=.., repo_name=..).all()
ReviewRows(rs, pr) ==
    {r \in BagToSet(rs) : r.repo_name = pr.repo /\ r.pr_number = pr.number}

\* Review.query.filter_by(pr_number, repo_name, reviewer, completed_at=None)
PendingRows(rs, pr, reviewer) ==
    {r \in ReviewRows(rs, pr) : r.reviewer = reviewer /\ r.completed_at = Null}

\* the rows of a PR that are still outstanding
OutstandingRows(rs, pr) == {r \in ReviewRows(rs, pr) : r.completed_at = Null}

\* db.session.delete of every row of S
DeleteRows(rs, S) == [r \in (DOMAIN rs) \ S |-> rs[r]]

\* the outstanding rows of S with completed_at set to t
CompleteRows(rs, S, t) ==
    LET done(r) == [r EXCEPT !.completed_at = t]
    IN  DeleteRows(rs, S) (+) [u \in {done(r) : r \in S} |->
                                  rs[CHOOSE r \in S : done(r) = u]]

\* .first() of a query: one of the rows of S (rows of S that the model tells
\* apart differ in no column the query selects on)
First(S) == CHOOSE r \in S : TRUE

\* A handler runs on a session: prs/reviews are what the session holds, cprs/
\* creviews what is committed; trace lists its commits and its calls of the
\* code host in order; raised says an exception is propagating.
Session(p, r, c) ==
    [prs |-> p, reviews |-> r, cprs |-> p, creviews |-> r, prompts |-> c,
     trace |-> <<>>, raised |-> FALSE]

\* db.session.commit(); one that writes nothing leaves no mark
commit(w) ==
    [w EXCEPT !.cprs = w.prs, !.creviews = w.reviews,
              !.trace = IF w.prs # w.cprs \/ w.reviews # w.creviews
                        THEN Append(@, "commit") ELSE @]

\* a request to the code host
call(w, what) == [w EXCEPT !.trace = Append(@, what)]

raise(w) == [w EXCEPT !.raised = TRUE]

\* an except clause that logs: the exception stops, the session stays as it is
caught(w) == [w EXCEPT !.raised = FALSE]

\* the calls that change the code host
SideEffects == {"create_comment", "update_comment", "request_reviewer"}

----------------------------------------------------------------------------
(* GitHubBot: the webhook handlers *)

add_pending_review(w, pr, reviewer, t) ==
    IF pr \notin DOMAIN w.prs THEN raise(w)  \* assert pr_record is not None
    ELSE LET w1 == [w EXCEPT !.prs[pr].status = PENDING_REVIEW]
         IN  IF PendingRows(w1.reviews, pr, reviewer) # {}
             THEN commit(w1)
             ELSE commit([w1 EXCEPT !.reviews =
                             @ (+) SetToBag({Review(pr, reviewer, Null)})])

update_comment(w, pr) ==
    IF w.prs[pr].initial_comment_id # None
    THEN call(w, "update_comment")
    ELSE raise(w)                            \* self.create_comment: no such method

handle_review_requested(w, pr, reviewer, t) ==
    IF pr.number < MIN_PR_ID[pr.repo] THEN w
    ELSE IF pr \notin DOMAIN w.prs THEN w
    ELSE LET w1 == [w EXCEPT !.prs[pr].status = PENDING_REVIEW]
         IN  IF PendingRows(w1.reviews, pr, reviewer) # {} THEN commit(w1)
             ELSE IF w1.prs[pr].initial_comment_id = None THEN raise(w1)
             ELSE add_pending_review(update_comment(w1, pr), pr, reviewer, t)

RECURSIVE review_requested_each(_, _, _, _)
review_requested_each(w, pr, todo, t) ==
    IF todo = {} \/ w.raised THEN w
    ELSE LET r == CHOOSE x \in todo : TRUE
         IN  review_requested_each(handle_review_requested(w, pr, r, t),
                                   pr, todo \ {r}, t)

RECURSIVE add_pending_each(_, _, _, _)
add_pending_each(w, pr, todo, t) ==
    IF todo = {} \/ w.raised THEN w
    ELSE LET r == CHOOSE x \in todo : TRUE
         IN  add_pending_each(add_pending_review(w, pr, r, t), pr, todo \ {r}, t)

\* an opening that does not look at the floor
handle_new_pr_any_number(w, pr, draft, requested, create_ok, t) ==
    IF pr \in DOMAIN w.prs THEN raise(w)
    ELSE LET status == IF draft THEN DRAFT ELSE PENDING_REVIEWER_CHOICE
         IN  commit([w EXCEPT !.prs = (pr :> PullRequest(status, t, None)) @@ @])

\* a handler that writes over the record of a PR that is tracked already
handle_new_pr_upsert(w, pr, draft, requested, create_ok, t) ==
    IF pr.number < MIN_PR_ID[pr.repo] THEN w
    ELSE LET status == IF draft THEN DRAFT ELSE PENDING_REVIEWER_CHOICE
             row == [p \in {pr} |-> PullRequest(status, t, None)]
             w1 == commit([w EXCEPT !.prs = row @@ @])
             w2 == call(w1, "create_comment")
             w3 == commit(IF create_ok
                          THEN [w2 EXCEPT !.prs[pr].initial_comment_id = "id"]
                          ELSE w2)
         IN  review_requested_each(w3, pr, requested, t)

handle_new_pr(w, pr, draft, requested, create_ok, t) ==
    IF pr.number < MIN_PR_ID[pr.repo] THEN w
    ELSE IF pr \in DOMAIN w.prs THEN raise(w) \* the primary key: IntegrityError
    ELSE LET status == IF draft THEN DRAFT ELSE PENDING_REVIEWER_CHOICE
             w1 == commit([w EXCEPT !.prs = (pr :> PullRequest(status, t, None)) @@ @])
             w2 == call(w1, "create_comment")
             w3 == commit(IF create_ok
                          THEN [w2 EXCEPT !.prs[pr].initial_comment_id = "id"]
                          ELSE w2)
         IN  review_requested_each(w3, pr, requested, t)

\* a closing that stamps the outstanding rows instead of deleting them
handle_closed_pr_completing(w, pr) ==
    IF pr \notin DOMAIN w.prs THEN w
    ELSE commit([w EXCEPT !.prs[pr].status = CLOSED,
                          !.reviews = CompleteRows(@, OutstandingRows(@, pr), 0)])

handle_closed_pr(w, pr) ==
    IF pr \notin DOMAIN w.prs THEN w
    ELSE commit([w EXCEPT !.prs[pr].status = CLOSED,
                          !.reviews = DeleteRows(@, OutstandingRows(@, pr))])

handle_ready_for_review(w, pr, requested, t) ==
    LET w1 == IF pr \in DOMAIN w.prs /\ w.prs[pr].initial_comment_id # None
              THEN update_comment(
                       commit([w EXCEPT !.prs[pr].status = PENDING_REVIEWER_CHOICE]),
                       pr)
              ELSE w
    IN  add_pending_each(w1, pr, requested, t)

\* a conversion to draft that leaves the review rows where they are
handle_converted_to_draft_keeping_rows(w, pr) ==
    IF pr \notin DOMAIN w.prs THEN w
    ELSE commit([w EXCEPT !.prs[pr].status = DRAFT])

handle_converted_to_draft(w, pr) ==
    IF pr \notin DOMAIN w.prs THEN w
    ELSE LET w1 == [w EXCEPT !.reviews = DeleteRows(@, ReviewRows(@, pr))]
             w2 == IF w1.prs[pr].initial_comment_id # None
                   THEN update_comment(w1, pr) ELSE w1
         IN  commit([w2 EXCEPT !.prs[pr].status = DRAFT])

handle_review_request_removed(w, pr, reviewer) ==
    IF pr.number < MIN_PR_ID[pr.repo] THEN w
    ELSE IF pr \notin DOMAIN w.prs THEN w
    ELSE LET pending == PendingRows(w.reviews, pr, reviewer)
             w1 == IF pending # {}
                   THEN commit([w EXCEPT !.reviews =
                                   @ (-) SetToBag({First(pending)})])
                   ELSE w
         IN  IF w1.prs[pr].initial_comment_id = None THEN raise(w1)
             ELSE update_comment(w1, pr)

\* len(get_current_reviewers(..)): the requested reviewers of the code host
\* plus one entry for every review row of the PR
current_reviewer_count(w, pr, remote) ==
    Cardinality(remote.requested)
        + BagCardinality([r \in ReviewRows(w.reviews, pr) |-> w.reviews[r]])

ask_for_second_reviewer(w, pr, remote) ==
    LET w1 == call(w, "get_pr")
        w2 == call(w1, "list_comments")
        w3 == call(w2, "create_comment")
    IN  IF ~remote.ok THEN w1                \* raise_for_status, logged
        ELSE IF current_reviewer_count(w1, pr, remote) > 1 THEN w1
        ELSE IF ~remote.comments_ok THEN w2  \* raise_for_status, logged
        ELSE IF w2.prompts[pr] > 0 THEN w2
        ELSE IF remote.create_ok THEN [w3 EXCEPT !.prompts[pr] = @ + 1]
        ELSE w3

handle_review_event(w, pr, reviewer, remote, t) ==
    IF pr.number < MIN_PR_ID[pr.repo] THEN w
    ELSE IF reviewer = AuthorOf(pr) THEN w
    ELSE LET w1 == IF remote.commented THEN call(w, "list_review_comments") ELSE w
             requests_completed == PendingRows(w1.reviews, pr, reviewer)
         IN  IF remote.commented /\ ~remote.list_ok THEN raise(w1)
             ELSE IF pr \notin DOMAIN w1.prs THEN w1
             ELSE IF requests_completed = {}
             THEN commit([w1 EXCEPT !.reviews =
                             @ (+) SetToBag({Review(pr, reviewer, t)})])
             ELSE ask_for_second_reviewer(
                      commit([w1 EXCEPT
                          !.reviews = CompleteRows(@, requests_completed, t),
                          !.prs[pr].status = REVIEWED]),
                      pr, remote)

----------------------------------------------------------------------------
(* GitHubBot: the sync at startup *)

\* a sync that deletes the outstanding rows of a PR that is no longer open
sync_pr_deleting(w, pr, remote, t) ==
    IF pr.number < MIN_PR_ID[pr.repo] THEN w
    ELSE IF remote.state = "open"
    THEN IF pr \notin DOMAIN w.prs
         THEN handle_new_pr(w, pr, remote.draft, remote.requested,
                            remote.create_ok, t)
         ELSE w
    ELSE IF pr \in DOMAIN w.prs
    THEN commit([w EXCEPT !.prs[pr].status = CLOSED,
                          !.reviews = DeleteRows(@, OutstandingRows(@, pr))])
    ELSE w

\* one PR of the listing: remote is what the code host lists of it
sync_pr(w, pr, remote, t) ==
    IF pr.number < MIN_PR_ID[pr.repo] THEN w
    ELSE IF remote.state = "open"
    THEN IF pr \notin DOMAIN w.prs
         THEN handle_new_pr(w, pr, remote.draft, remote.requested,
                            remote.create_ok, t)
         ELSE w
    ELSE IF pr \in DOMAIN w.prs
    THEN commit([w EXCEPT !.prs[pr].status = CLOSED,
                          !.reviews = CompleteRows(@, OutstandingRows(@, pr), t)])
    ELSE w

RECURSIVE sync_each(_, _, _, _)
sync_each(w, todo, listing, t) ==
    IF todo = {} \/ w.raised THEN w
    ELSE LET pr == CHOOSE x \in todo : TRUE
         IN  sync_each(sync_pr(w, pr, listing[pr], t), todo \ {pr}, listing, t)

\* the loop body of sync_existing_prs for one repository: fail is the
\* repository whose listing the code host refuses, if any
sync_repo(w, repo_name, listing, fail, t) ==
    LET w1 == call(w, "list_prs")
        listed == {pr \in DOMAIN listing :
                      pr.repo = repo_name /\ listing[pr].state # "absent"}
    IN  IF w.raised THEN w
        ELSE IF fail = repo_name THEN raise(w1)  \* raise_for_status
        ELSE LET w2 == sync_each(w1, listed, listing, t)
             IN  IF w2.raised THEN w2 ELSE commit(w2)

\* for repo_name in MIN_PR_ID
sync_existing_prs(w, listing, fail, t) ==
    sync_repo(sync_repo(w, RL, listing, fail, t), NODE, listing, fail, t)

----------------------------------------------------------------------------
(* GitHubBot: the reviewer selector and the assignment flows *)

\* reviewer_counts: a dict holding the reviewers with a recent completed review
get_recent_reviews(p, rs, t) ==
    LET recent_threshold == t - RecentDays * MinutesPerDay
        reviewer_set(pr) ==
            {r.reviewer : r \in {x \in BagToSet(rs) :
                /\ x.pr_number = pr.number
                /\ x.completed_at # Null
                /\ x.completed_at > recent_threshold}}
        seen == UNION {reviewer_set(pr) : pr \in DOMAIN p}
    IN  [u \in seen |-> Cardinality({pr \in DOMAIN p : u \in reviewer_set(pr)})]

\* reviewer_counts.get(x, 0)
count_of(reviewer_counts, x) ==
    IF x \in DOMAIN reviewer_counts THEN reviewer_counts[x] ELSE 0

\* a selector that forgets to take the author out of the candidates
possible_reviewers_with_author(p, rs, pr, pr_author, t) ==
    LET collaborators == get_repo_collaborators(pr.repo)
        reviewer_counts == get_recent_reviews(p, rs, t)
    IN  {c \in collaborators :
            \A d \in collaborators :
                count_of(reviewer_counts, c) <= count_of(reviewer_counts, d)}

\* a selector that draws from every candidate, whatever its count
possible_reviewers_any_count(p, rs, pr, pr_author, t) ==
    {c \in get_repo_collaborators(pr.repo) : c # pr_author}

\* the candidates tied at the least count: random.choice draws from them
possible_reviewers(p, rs, pr, pr_author, t) ==
    LET collaborators == {c \in get_repo_collaborators(pr.repo) : c # pr_author}
        reviewer_counts == get_recent_reviews(p, rs, t)
        min_reviews == CHOOSE n \in {count_of(reviewer_counts, c) : c \in collaborators} :
                           \A c \in collaborators : n <= count_of(reviewer_counts, c)
    IN  {c \in collaborators : count_of(reviewer_counts, c) = min_reviews}

assign_reviewer(w, pr, reviewer, assign_ok, t) ==
    LET w1 == call(w, "request_reviewer")
    IN  IF ~assign_ok THEN raise(w1)         \* status_code != 201
        ELSE add_pending_review(w1, pr, reviewer, t)

\* remote is the PR as the code host returns it, with the environment's draw
\* (pick) and its answer to the assignment (assign_ok).  The result holds the
\* session, the reviewer returned, and what the selector drew from and drew:
\* had_row says the reviewer drawn had a review row of the PR already, assigned
\* that the assignment went through.
auto_assign_next_reviewer(w, pr, remote, t) ==
    IF remote.draft \/ remote.state # "open"
    THEN [w |-> w, selected |-> None, picks |-> {}]
    ELSE LET possible == possible_reviewers(w.prs, w.reviews, pr, AuthorOf(pr), t)
             w1 == assign_reviewer(w, pr, remote.pick, remote.assign_ok, t)
             pick == [pr |-> pr, selected |-> remote.pick, possible |-> possible,
                      requested |-> remote.requested,
                      had_row |-> \E r \in ReviewRows(w.reviews, pr) :
                                      r.reviewer = remote.pick,
                      assigned |-> ~w1.raised]
         IN  IF w1.raised
             THEN [w |-> w1, selected |-> None, picks |-> {pick}]
             ELSE [w |-> commit([w1 EXCEPT !.prs[pr].status = PENDING_REVIEW]),
                   selected |-> remote.pick, picks |-> {pick}]

auto_assign_reviewers(w, pr, remote, t) ==
    LET w1 == call(w, "get_pr")
        res == auto_assign_next_reviewer(w1, pr, remote, t)
    IN  IF ~remote.ok THEN [w |-> w1, picks |-> {}]
        ELSE IF remote.requested # {}
        THEN [w |-> commit([w1 EXCEPT !.prs[pr].status = PENDING_REVIEW]),
              picks |-> {}]
        ELSE IF res.selected = None THEN [w |-> caught(res.w), picks |-> res.picks]
        ELSE [w |-> caught(update_comment(res.w, pr)), picks |-> res.picks]

assign_second_reviewer(w, pr, remote, t) ==
    IF pr \notin DOMAIN w.prs THEN [w |-> w, picks |-> {}]
    ELSE LET w1 == call(w, "get_pr")
             res == auto_assign_next_reviewer(w1, pr, remote, t)
         IN  IF res.selected = None THEN [w |-> caught(res.w), picks |-> res.picks]
             ELSE [w |-> call(res.w, "create_comment"), picks |-> res.picks]

\* app.py: POST /assign-second-reviewer/<repo_org>/<repo_name>/<pr_number>/confirm
confirm_assign_second_reviewer(w, pr, remote, t) ==
    LET w1 == call(w, "get_pr")
    IN  IF ~remote.ok THEN [w |-> w1, picks |-> {}]
        ELSE IF current_reviewer_count(w1, pr, remote) >= 2
        THEN [w |-> w1, picks |-> {}]
        ELSE assign_second_reviewer(w1, pr, remote, t)

----------------------------------------------------------------------------
(* GitHubBot: the reminder loop *)

weekday(t) == (t \div MinutesPerDay) % 7
hour(t) == (t \div 60) % 24

\* a query that leaves the age of the PR out
prs_needing_assignment_any_age(p, t) ==
    {pr \in DOMAIN p : p[pr].status = PENDING_REVIEWER_CHOICE}

\* PullRequest.query.filter(status == PENDING_REVIEWER_CHOICE,
\*                          created_at <= reviewer_threshold)
prs_needing_assignment(p, t) ==
    {pr \in DOMAIN p : /\ p[pr].status = PENDING_REVIEWER_CHOICE
                       /\ p[pr].created_at <= t - ReviewerThresholdMinutes}

RECURSIVE auto_assign_each(_, _, _, _)
auto_assign_each(res, todo, remote, t) ==
    IF todo = {} THEN res
    ELSE LET pr == CHOOSE x \in todo : TRUE
             one == auto_assign_reviewers(res.w, pr, remote[pr], t)
         IN  auto_assign_each([w |-> one.w, picks |-> res.picks \cup one.picks],
                              todo \ {pr}, remote, t)

\* a step of a cycle that the trace keeps: "reviews_needing_reminders" where
\* the reminder branch is entered, "store_error" where the store fails
mark(w, what) == [w EXCEPT !.trace = Append(@, what)]

\* the reminder branch.  The Review model has no last_reminder_sent column, so
\* building the query for reviews_needing_reminders raises AttributeError:
\* no row is looked at and _send_review_reminder is never called
reminder_step(w, t) ==
    IF weekday(t) < 4 \/ (weekday(t) = 5 /\ hour(t) < 17)
    THEN raise(mark(w, "reviews_needing_reminders"))
    ELSE w

\* store_ok: whether the store answers the query for prs_needing_assignment;
\* if it does not, the query raises and the cycle ends there
check_and_send_reminders(w, remote, store_ok, t) ==
    IF ~store_ok THEN [w |-> raise(mark(w, "store_error")), picks |-> {}]
    ELSE LET res == auto_assign_each([w |-> w, picks |-> {}],
                                     prs_needing_assignment(w.prs, t), remote, t)
         IN  [w |-> reminder_step(res.w, t), picks |-> res.picks]

\* a loop that ends with the first cycle that raises
reminder_scheduler_uncaught(w) == IF w.raised THEN "stopped" ELSE "running"

\* app.py, the body of while True: what a cycle raises is logged, and the
\* loop sleeps and goes on
reminder_scheduler(w) == "running"

----------------------------------------------------------------------------
(* app.py: the webhook endpoint *)

\* the secret the bot is configured with, and a key an attacker guesses
WEBHOOK_SECRET == "secret"
OtherKey == "guess"

\* request.data of the delivery, and some other bytes
Body == "payload"
OtherBody == "other payload"

\* hmac.new(key, payload, hashlib.sha256).hexdigest(): the digest of a key and
\* a payload is taken to be unforgeable, so it stands for the pair
hexdigest(key, payload) == <<key, payload>>

\* the X-Hub-Signature-256 header: <<>> when it is missing
NoSignature == <<>>
Signed(key, payload) == <<"sha256=">> \o hexdigest(key, payload)
GoodSignature == Signed(WEBHOOK_SECRET, Body)
BadSignatures ==
    {NoSignature, Signed(OtherKey, Body), Signed(WEBHOOK_SECRET, OtherBody)}

\* a verification that takes any signature that is there
verify_webhook_present(signature, payload) == signature # NoSignature

verify_webhook(signature, payload) ==
    IF signature = NoSignature THEN FALSE
    ELSE signature = Signed(WEBHOOK_SECRET, payload)

----------------------------------------------------------------------------
(* What the code host may answer *)

AnyUser == CHOOSE u \in get_repo_collaborators(RL) : TRUE

Remote(ok, draft, state, requested, pick, assign_ok) ==
    [ok |-> ok, draft |-> draft, state |-> state, requested |-> requested,
     pick |-> pick, assign_ok |-> assign_ok]

\* the PR detail the reminder loop fetches, and the draw of random.choice
AssignRemotes ==
    {Remote(FALSE, FALSE, "open", {}, AnyUser, FALSE)}
    \cup {Remote(TRUE, FALSE, "open", rr, AnyUser, FALSE) : rr \in RequestedSets \ {{}}}
    \cup {Remote(TRUE, TRUE, "open", {}, AnyUser, FALSE)}
    \cup {Remote(TRUE, FALSE, st, {}, AnyUser, FALSE) : st \in {"closed", "merged"}}
    \cup {Remote(TRUE, FALSE, "open", {}, u, ok) :
              u \in get_repo_collaborators(RL), ok \in BOOLEAN}

\* the PR detail the second-reviewer route fetches
SecondRemotes ==
    {Remote(FALSE, FALSE, "open", {}, AnyUser, FALSE),
     Remote(TRUE, TRUE, "open", {}, AnyUser, FALSE),
     Remote(TRUE, FALSE, "closed", {}, AnyUser, FALSE),
     Remote(TRUE, FALSE, "open", {"arik-so", "jkczyz"}, AnyUser, FALSE)}
    \cup {Remote(TRUE, FALSE, "open", rr, u, ok) :
              rr \in {{}, {"arik-so"}}, u \in get_repo_collaborators(RL),
              ok \in BOOLEAN}

SyncRemote(state, draft, requested, create_ok) ==
    [state |-> state, draft |-> draft, requested |-> requested,
     create_ok |-> create_ok]

Unlisted == SyncRemote("absent", FALSE, {}, FALSE)

\* what pulls?state=all lists of one PR
SyncRemotes ==
    {Unlisted,
     SyncRemote("closed", FALSE, {}, FALSE),
     SyncRemote("open", FALSE, {}, TRUE),
     SyncRemote("open", TRUE, {}, TRUE),
     SyncRemote("open", FALSE, {"arik-so"}, TRUE),
     SyncRemote("open", FALSE, {"arik-so"}, FALSE)}

\* the listings of a start: all of them answered, or the listing of one
\* repository refused (the PRs of that repository are then not seen)
SyncInputs(K) ==
    {[fail |-> None, listing |-> l] : l \in [K -> SyncRemotes]}
    \cup UNION {{[fail |-> repo_name, listing |-> l] :
                    l \in {x \in [K -> SyncRemotes] :
                              \A pr \in K : pr.repo = repo_name => x[pr] = Unlisted}} :
                repo_name \in Repos}

ReviewRemote(commented, list_ok, ok, requested, comments_ok, create_ok) ==
    [commented |-> commented, list_ok |-> list_ok, ok |-> ok,
     requested |-> requested, comments_ok |-> comments_ok,
     create_ok |-> create_ok]

\* a submitted review (review["state"] is "commented" or not) and the answers
\* to the calls of handle_review_event
ReviewRemotes ==
    {ReviewRemote(TRUE, FALSE, FALSE, {}, FALSE, FALSE),
     ReviewRemote(TRUE, TRUE, TRUE, {}, TRUE, TRUE),
     ReviewRemote(FALSE, TRUE, FALSE, {}, FALSE, FALSE),
     ReviewRemote(FALSE, TRUE, TRUE, {}, FALSE, FALSE),
     ReviewRemote(FALSE, TRUE, TRUE, {}, TRUE, FALSE)}
    \cup {ReviewRemote(FALSE, TRUE, TRUE, rr, TRUE, TRUE) : rr \in RequestedSets}

----------------------------------------------------------------------------
(* The state machine *)

NoKey == [repo |-> "", number |-> 0]

Init ==
    /\ prs = <<>>
    /\ reviews = EmptyBag
    /\ prompts = [pr \in AllPRKeys |-> 0]
    /\ now = 0
    /\ inflight = EmptyBag
    /\ loop = "running"
    /\ last = [op |-> "init", pr |-> NoKey, reviewer |-> None,
               signature |-> NoSignature, status |-> 0, trace |-> <<>>,
               remote |-> <<>>, picks |-> {}, before |-> 0]

\* the store after a request or a cycle: what was committed; the session is
\* removed, and with it what was not.  In last, status is the HTTP status of a
\* webhook response (0 where there is none), remote what the code host
\* answered about each PR fetched, picks what the selector drew, and before
\* the number of rows of the PR that were outstanding when the step began.
Store(op, pr, reviewer, signature, status, w, remote, picks) ==
    /\ BagCardinality(w.creviews) <= MaxReviews
    /\ \A k \in picks : k.selected \in k.possible
    /\ prs' = w.cprs
    /\ reviews' = w.creviews
    /\ prompts' = w.prompts
    /\ last' = [op |-> op, pr |-> pr, reviewer |-> reviewer,
                signature |-> signature, status |-> status, trace |-> w.trace,
                remote |-> remote, picks |-> picks,
                before |-> BagCardinality([r \in OutstandingRows(reviews, pr) |->
                                              reviews[r]])]
    /\ UNCHANGED <<now, inflight>>

\* ... of a request: the reminder thread is not touched
Finish(op, pr, reviewer, signature, status, w, remote, picks) ==
    /\ Store(op, pr, reviewer, signature, status, w, remote, picks)
    /\ UNCHANGED loop

\* webhook(): 401 on a bad signature, before the event is read; else the
\* handler, and 500 if it raises
webhook(op, pr, reviewer, signature, w) ==
    IF verify_webhook(signature, Body)
    THEN Finish(op, pr, reviewer, signature, IF w.raised THEN 500 ELSE 200, w,
                <<>>, {})
    ELSE Finish("unauthorized", NoKey, None, signature, 401,
                Session(prs, reviews, prompts), <<>>, {})

Opened(K) ==
    \E pr \in K, draft \in BOOLEAN, requested \in RequestedSets,
       create_ok \in BOOLEAN :
        webhook("opened", pr, None, GoodSignature,
                handle_new_pr(Session(prs, reviews, prompts), pr, draft,
                              requested, create_ok, now))

Closed(K) ==
    \E pr \in K :
        webhook("closed", pr, None, GoodSignature,
                handle_closed_pr(Session(prs, reviews, prompts), pr))

ReadyForReview(K) ==
    \E pr \in K, requested \in RequestedSets :
        webhook("ready_for_review", pr, None, GoodSignature,
                handle_ready_for_review(Session(prs, reviews, prompts), pr,
                                        requested, now))

ConvertedToDraft(K) ==
    \E pr \in K :
        webhook("converted_to_draft", pr, None, GoodSignature,
                handle_converted_to_draft(Session(prs, reviews, prompts), pr))

ReviewRequested(K) ==
    \E pr \in K, reviewer \in RequestedUsers :
        webhook("review_requested", pr, reviewer, GoodSignature,
                handle_review_requested(Session(prs, reviews, prompts), pr,
                                        reviewer, now))

ReviewRequestRemoved(K) ==
    \E pr \in K, reviewer \in RequestedUsers :
        webhook("review_request_removed", pr, reviewer, GoodSignature,
                handle_review_request_removed(Session(prs, reviews, prompts),
                                              pr, reviewer))

ReviewSubmitted(K) ==
    \E pr \in K, reviewer \in ReviewUsers, remote \in ReviewRemotes :
        webhook("review_submitted", pr, reviewer, GoodSignature,
                handle_review_event(Session(prs, reviews, prompts), pr,
                                    reviewer, remote, now))

\* a delivery whose signature is missing or wrong, of any event
Forged(K) ==
    \E pr \in K, signature \in BadSignatures, reviewer \in {AnyUser},
       op \in {"opened", "closed", "ready_for_review", "converted_to_draft",
               "review_requested", "review_request_removed", "review_submitted"} :
        LET w == Session(prs, reviews, prompts)
            remote == ReviewRemote(FALSE, TRUE, TRUE, {}, TRUE, TRUE)
        IN  webhook(op, pr, reviewer, signature,
                CASE op = "opened" -> handle_new_pr(w, pr, FALSE, {}, TRUE, now)
                  [] op = "closed" -> handle_closed_pr(w, pr)
                  [] op = "ready_for_review" -> handle_ready_for_review(w, pr, {}, now)
                  [] op = "converted_to_draft" -> handle_converted_to_draft(w, pr)
                  [] op = "review_requested" ->
                         handle_review_requested(w, pr, reviewer, now)
                  [] op = "review_request_removed" ->
                         handle_review_request_removed(w, pr, reviewer)
                  [] OTHER -> handle_review_event(w, pr, reviewer, remote, now))

\* one cycle of reminder_scheduler; status 500 in last stands for a cycle
\* that raised
Reconcile ==
    /\ loop = "running"
    /\ \E store_ok \in BOOLEAN :
         \E remote \in [IF store_ok THEN prs_needing_assignment(prs, now) ELSE {}
                            -> AssignRemotes] :
           LET res == check_and_send_reminders(Session(prs, reviews, prompts),
                                               remote, store_ok, now)
           IN  /\ Store("reconcile", NoKey, None, NoSignature,
                        IF res.w.raised THEN 500 ELSE 0, res.w, remote, res.picks)
               /\ loop' = reminder_scheduler(res.w)

SecondReviewer(K) ==
    \E pr \in K, remote \in SecondRemotes :
        LET res == confirm_assign_second_reviewer(
                       Session(prs, reviews, prompts), pr, remote, now)
        IN  Finish("second_reviewer", pr, None, NoSignature, 0, res.w,
                   pr :> remote, res.picks)

\* a start of the process: app.py calls sync_existing_prs before it serves;
\* what it raises ends the start (status 500 in last stands for that), what it
\* committed stays.  In last, remote keeps the state the listing gave each PR.
Sync(K) ==
    \E input \in SyncInputs(K) :
        LET w == sync_existing_prs(Session(prs, reviews, prompts),
                                   input.listing, input.fail, now)
        IN  Finish("sync", NoKey, None, NoSignature, IF w.raised THEN 500 ELSE 0,
                   w, [pr \in K |-> input.listing[pr].state], {})

Tick ==
    /\ now + TickMinutes <= MaxTicks * TickMinutes
    /\ now' = now + TickMinutes
    /\ last' = [op |-> "tick", pr |-> NoKey, reviewer |-> None,
                signature |-> NoSignature, status |-> 0, trace |-> <<>>,
                remote |-> <<>>, picks |-> {}, before |-> 0]
    /\ UNCHANGED <<prs, reviews, prompts, inflight, loop>>

Next ==
    \/ Opened(PRKeys)
    \/ Closed(PRKeys)
    \/ ReadyForReview(PRKeys)
    \/ ConvertedToDraft(PRKeys)
    \/ ReviewRequested(PRKeys)
    \/ ReviewRequestRemoved(PRKeys)
    \/ ReviewSubmitted(PRKeys)
    \/ Forged(PRKeys)
    \/ Reconcile
    \/ SecondReviewer(PRKeys)
    \/ Tick

Spec == Init /\ [][Next]_vars

----------------------------------------------------------------------------
(* Requests served at the same time *)

\* Requests are served next to the reminder thread, and next to each other
\* where the server runs several workers, each on a session of its own.  A
\* caller of _add_pending_review (_handle_review_requested after its comment
\* update, assign_reviewer after its request) has run the query for a pending
\* row and found none.  The PR is in PENDING_REVIEW already, so that setting
\* its status writes nothing and holds no lock.
AddPendingBegin(K) ==
    \E pr \in K, reviewer \in RequestedUsers :
        /\ BagCardinality(inflight) < MaxInflight
        /\ pr \in DOMAIN prs
        /\ prs[pr].status = PENDING_REVIEW
        /\ prs[pr].initial_comment_id # None
        /\ PendingRows(reviews, pr, reviewer) = {}
        /\ inflight' = inflight (+) SetToBag({[pr |-> pr, reviewer |-> reviewer]})
        /\ last' = [op |-> "add_pending_begin", pr |-> pr, reviewer |-> reviewer,
                    signature |-> GoodSignature, status |-> 0, trace |-> <<>>,
                    remote |-> <<>>, picks |-> {}, before |-> 0]
        /\ UNCHANGED <<prs, reviews, prompts, now, loop>>

\* ... and goes on to add its row and commit
AddPendingCommit ==
    \E x \in BagToSet(inflight) :
        /\ BagCardinality(reviews) < MaxReviews
        /\ reviews' = reviews (+) SetToBag({Review(x.pr, x.reviewer, Null)})
        /\ inflight' = inflight (-) SetToBag({x})
        /\ last' = [op |-> "add_pending_commit", pr |-> x.pr,
                    reviewer |-> x.reviewer, signature |-> GoodSignature,
                    status |-> 200, trace |-> <<"commit">>, remote |-> <<>>,
                    picks |-> {},
                    before |-> BagCardinality([r \in OutstandingRows(reviews, x.pr) |->
                                                  reviews[r]])]
        /\ UNCHANGED <<prs, prompts, now, loop>>

NextConc ==
    \/ Next
    \/ AddPendingBegin(PRKeys)
    \/ AddPendingCommit

SpecConc == Init /\ [][NextConc]_vars

----------------------------------------------------------------------------
(* The process is started again while the store is kept *)

\* the operations that add, complete and delete rows, and the sync of a start
NextSync ==
    \/ Opened(PRKeys)
    \/ Closed(PRKeys)
    \/ ConvertedToDraft(PRKeys)
    \/ ReviewRequested(PRKeys)
    \/ ReviewSubmitted(PRKeys)
    \/ Reconcile
    \/ Sync(PRKeys)
    \/ Tick

SpecSync == Init /\ [][NextSync]_vars

----------------------------------------------------------------------------
(* PRs below the floor of their repository *)

\* ldk-node#511 is one below the floor of its repository
BelowKeys == {[repo |-> NODE, number |-> 511]}
\* rust-lightning#3634 is at the floor of its repository
FloorKeys == BelowKeys \cup PRKeys

\* The PR at the floor is opened, has reviewers requested, is assigned by the
\* reminder loop and is closed, so that the store holds rows; the PR below
\* the floor gets every event and is listed at a start.
NextFloor ==
    \/ Opened(FloorKeys)
    \/ Closed(FloorKeys)
    \/ ReviewRequested(FloorKeys)
    \/ ReadyForReview(BelowKeys)
    \/ ConvertedToDraft(BelowKeys)
    \/ ReviewRequestRemoved(BelowKeys)
    \/ ReviewSubmitted(BelowKeys)
    \/ Forged(BelowKeys)
    \/ Reconcile
    \/ SecondReviewer(BelowKeys)
    \/ Sync(BelowKeys)
    \/ Tick

SpecFloor == Init /\ [][NextFloor]_vars

----------------------------------------------------------------------------
(* Properties *)

\* the rows of one PR, as a bag
PRBag(rs, pr) == [r \in ReviewRows(rs, pr) |-> rs[r]]

\* the rows of a (PR, reviewer) that are outstanding, counted
OutstandingCount(rs, pr, reviewer) ==
    CopiesIn(Review(pr, reviewer, Null), rs)

\* the store a handler leaves behind: what its session committed
Committed(w) == [prs |-> w.cprs, reviews |-> w.creviews]

\* the eligible reviewers of a PR whose recent-workload count is the least
LeastLoaded(p, rs, pr, t) ==
    LET eligible == get_repo_collaborators(pr.repo) \ {AuthorOf(pr)}
        histogram == get_recent_reviews(p, rs, t)
    IN  {c \in eligible :
            \A d \in eligible : count_of(histogram, c) <= count_of(histogram, d)}

WebhookOps ==
    {"opened", "closed", "ready_for_review", "converted_to_draft",
     "review_requested", "review_request_removed", "review_submitted",
     "unauthorized"}

\* C1: in every reachable state, with webhook requests and the reminder
\* thread served at the same time, no (repository, PR, reviewer) has two
\* review rows whose completion timestamp is null.
C1_OneOutstandingRowPerReviewer ==
    \A pr \in AllPRKeys, reviewer \in Users :
        OutstandingCount(reviews, pr, reviewer) <= 1

\* C2: for a tracked PR, processing the same review_requested event twice in
\* a row leaves exactly one outstanding row for the reviewer, and the store
\* after the second processing is the store after the first.
C2_ReviewRequestedReplay ==
    \A pr \in PRKeys, reviewer \in RequestedUsers :
        pr \in DOMAIN prs =>
            LET once == handle_review_requested(
                            Session(prs, reviews, prompts), pr, reviewer, now)
                twice == handle_review_requested(
                             Session(once.cprs, once.creviews, once.prompts),
                             pr, reviewer, now)
            IN  /\ OutstandingCount(twice.creviews, pr, reviewer) = 1
                /\ Committed(twice) = Committed(once)

\* C3: Closed is terminal: no step changes the status of a PR whose status
\* is CLOSED.
C3_ClosedIsTerminal ==
    [][\A pr \in DOMAIN prs :
           prs[pr].status = CLOSED =>
               pr \in DOMAIN prs' /\ prs'[pr].status = CLOSED]_vars

\* C4: after a closed event for a tracked PR its status is CLOSED, each of its
\* rows that was outstanding is gone (deleted, not completed), and every other
\* row of the table is there as it was.
C4_ClosedDeletesOutstanding ==
    [][(last'.op = "closed" /\ last'.pr \in DOMAIN prs) =>
           /\ last'.pr \in DOMAIN prs'
           /\ prs'[last'.pr].status = CLOSED
           /\ \A r \in BagToSet(reviews) \cup BagToSet(reviews') :
                  CopiesIn(r, reviews') =
                      IF r \in OutstandingRows(reviews, last'.pr)
                      THEN 0 ELSE CopiesIn(r, reviews)]_vars

\* two outstanding rows were there when the PR was closed
C4_Witness ==
    /\ last.op = "closed"
    /\ last.before = 2
    /\ last.pr \in DOMAIN prs
    /\ prs[last.pr].status = CLOSED
    /\ OutstandingRows(reviews, last.pr) = {}

\* C5: whenever the selector picks, the set it draws from is the set of the
\* eligible reviewers (the configured list without the PR author) whose
\* recent-workload count, 0 if absent from the histogram, is the least; the
\* pick is one of them, and each of them can be the pick.
C5_PickIsLeastLoaded ==
    [][\A k \in last'.picks :
           /\ k.possible = LeastLoaded(prs, reviews, k.pr, now)
           /\ k.selected \in k.possible
           /\ k.selected \in get_repo_collaborators(k.pr.repo)
           /\ k.selected # AuthorOf(k.pr)]_vars

\* the selector had one candidate with a recent review and picked the other
C5_Witness ==
    \E k \in last.picks :
        /\ k.assigned
        /\ k.possible = {k.selected}
        /\ k.possible # get_repo_collaborators(k.pr.repo) \ {AuthorOf(k.pr)}

\* C6: the reviewer the second-reviewer flow selects is not a requested
\* reviewer of the PR on the code host and has no review row of the PR.
C6_SecondReviewerIsNew ==
    last.op = "second_reviewer" =>
        \A k \in last.picks :
            k.assigned => k.selected \notin k.requested /\ ~k.had_row

\* what C7 says of one PR in a cycle: pr was in PENDING_REVIEWER_CHOICE; host
\* is what the code host answered in the cycle
C7_Due(pr) ==
    /\ prs[pr].status = PENDING_REVIEWER_CHOICE
    /\ prs[pr].created_at < now - ReviewerThresholdMinutes
    /\ pr \in DOMAIN last'.remote
    /\ last'.remote[pr].ok
    /\ last'.remote[pr].requested = {}
    /\ ~last'.remote[pr].draft
    /\ last'.remote[pr].state = "open"
    /\ last'.remote[pr].assign_ok

C7_Young(pr) ==
    /\ prs[pr].status = PENDING_REVIEWER_CHOICE
    /\ prs[pr].created_at > now - ReviewerThresholdMinutes

C7_Untouched(pr) ==
    /\ prs'[pr] = prs[pr]
    /\ PRBag(reviews', pr) = PRBag(reviews, pr)

\* C7 as stated: a due PR ends the cycle with exactly one new outstanding row,
\* for a least-loaded reviewer, and in PENDING_REVIEW; a young one is left as
\* it was.
C7_ExactlyOneNewRow ==
    [][last'.op = "reconcile" =>
           \A pr \in DOMAIN prs :
               /\ C7_Due(pr) =>
                      /\ prs'[pr].status = PENDING_REVIEW
                      /\ \E u \in LeastLoaded(prs, reviews, pr, now) :
                             PRBag(reviews', pr) =
                                 PRBag(reviews, pr)
                                     (+) SetToBag({Review(pr, u, Null)})
               /\ C7_Young(pr) => C7_Untouched(pr)]_vars

\* C7: a due PR ends the cycle in PENDING_REVIEW with exactly one outstanding
\* row for the reviewer selected, who is a least-loaded one: a new row, unless
\* that reviewer had an outstanding row of the PR already, and no other row of
\* the PR changes; a young one is left as it was.
C7_OneRowForSelected ==
    [][last'.op = "reconcile" =>
           \A pr \in DOMAIN prs :
               /\ C7_Due(pr) =>
                      /\ prs'[pr].status = PENDING_REVIEW
                      /\ \E k \in last'.picks :
                             /\ k.pr = pr
                             /\ k.selected \in LeastLoaded(prs, reviews, pr, now)
                             /\ OutstandingCount(reviews', pr, k.selected) = 1
                             /\ PRBag(reviews', pr) =
                                    IF PendingRows(reviews, pr, k.selected) = {}
                                    THEN PRBag(reviews, pr)
                                             (+) SetToBag({Review(pr, k.selected, Null)})
                                    ELSE PRBag(reviews, pr)
               /\ C7_Young(pr) => C7_Untouched(pr)]_vars

\* a cycle assigned a reviewer to a PR that had no row of that reviewer
C7_Witness ==
    /\ last.op = "reconcile"
    /\ \E k \in last.picks :
           /\ k.assigned
           /\ ~k.had_row
           /\ last.remote[k.pr].requested = {}
           /\ prs[k.pr].status = PENDING_REVIEW
           /\ prs[k.pr].created_at < now - ReviewerThresholdMinutes
           /\ OutstandingCount(reviews, k.pr, k.selected) = 1

\* C8: in the handling of review_requested and of converted_to_draft, in a
\* reconciliation cycle and in the second-reviewer flow, a call that changes
\* the code host is made only after a commit of the local change.
C8_CommitBeforeSideEffect ==
    (/\ last.op \in {"review_requested", "converted_to_draft", "reconcile",
                     "second_reviewer"}
     /\ \E j \in DOMAIN last.trace : last.trace[j] = "commit") =>
        \A i \in DOMAIN last.trace :
            last.trace[i] \in SideEffects =>
                \E j \in 1..(i - 1) : last.trace[j] = "commit"

\* C9: after a review by someone other than the author is processed for a
\* tracked PR that is not closed, the PR is REVIEWED and the reviewer has no
\* outstanding row of it.
C9_ReviewedAfterReview ==
    [][(/\ last'.op = "review_submitted"
        /\ last'.status = 200
        /\ last'.reviewer # AuthorOf(last'.pr)
        /\ last'.pr \in DOMAIN prs
        /\ prs[last'.pr].status # CLOSED) =>
           /\ prs'[last'.pr].status = REVIEWED
           /\ PendingRows(reviews', last'.pr, last'.reviewer) = {}]_vars

\* C10: a webhook request whose signature is missing or is not the keyed hash
\* of its body is answered 401, changes no row and calls the code host for
\* nothing, whatever its event.
C10_BadSignatureRejected ==
    [][(last'.op \in WebhookOps /\ last'.signature # Signed(WEBHOOK_SECRET, Body)) =>
           /\ last'.status = 401
           /\ last'.trace = <<>>
           /\ prs' = prs
           /\ reviews' = reviews
           /\ prompts' = prompts]_vars

\* a delivery signed with another key was turned away while a PR with an
\* outstanding review was tracked
C10_Witness ==
    /\ last.op = "unauthorized"
    /\ last.status = 401
    /\ last.signature = Signed(OtherKey, Body)
    /\ \E pr \in DOMAIN prs : OutstandingRows(reviews, pr) # {}

BelowFloor(pr) == pr \in AllPRKeys /\ pr.number < MIN_PR_ID[pr.repo]

\* C11: no step leaves a PullRequest row or a Review row whose PR number is
\* below the floor of its repository in the store, and a webhook event or a
\* second-reviewer request for such a PR, and a start that lists only such
\* PRs, leave the store as it was.
C11_BelowFloorIgnored ==
    [][/\ \A pr \in DOMAIN prs' : pr.number >= MIN_PR_ID[pr.repo]
       /\ \A r \in BagToSet(reviews') : r.pr_number >= MIN_PR_ID[r.repo_name]
       /\ (last'.op \in WebhookOps \cup {"second_reviewer"} /\ BelowFloor(last'.pr)) =>
              prs' = prs /\ reviews' = reviews
       /\ (last'.op = "sync" /\ \A pr \in DOMAIN last'.remote : BelowFloor(pr)) =>
              prs' = prs /\ reviews' = reviews]_vars

\* an opened event for the PR below the floor was answered while the store
\* held a PR with an outstanding review
C11_Witness ==
    /\ last.op = "opened"
    /\ last.status = 200
    /\ BelowFloor(last.pr)
    /\ \E pr \in DOMAIN prs : OutstandingRows(reviews, pr) # {}

\* C12: after a converted_to_draft event for a tracked PR the PR is in DRAFT
\* and none of its rows is outstanding.
C12_DraftHasNoOutstanding ==
    [][(last'.op = "converted_to_draft" /\ last'.pr \in DOMAIN prs) =>
           /\ prs'[last'.pr].status = DRAFT
           /\ OutstandingRows(reviews', last'.pr) = {}]_vars

\* a PR with outstanding rows was converted to draft
C12_Witness ==
    /\ last.op = "converted_to_draft"
    /\ last.status = 200
    /\ last.before > 0
    /\ last.pr \in DOMAIN prs
    /\ prs[last.pr].status = DRAFT
    /\ OutstandingRows(reviews, last.pr) = {}

\* C13: an opened event for a draft PR that is not tracked stores it in DRAFT,
\* adds no review row and requests no reviewer; the ready_for_review event
\* that follows puts it in PENDING_REVIEWER_CHOICE and deletes no review row.
\* (requested is what both payloads list as requested reviewers, create_ok
\* whether the first comment could be posted.)
C13_DraftOpenedThenReady ==
    \A pr \in PRKeys, requested \in RequestedSets, create_ok \in BOOLEAN :
        pr \notin DOMAIN prs =>
            LET opened == handle_new_pr(Session(prs, reviews, prompts), pr,
                                        TRUE, requested, create_ok, now)
                ready == handle_ready_for_review(
                             Session(opened.cprs, opened.creviews, opened.prompts),
                             pr, requested, now)
            IN  /\ pr \in DOMAIN opened.cprs
                /\ opened.cprs[pr].status = DRAFT
                /\ opened.creviews = reviews
                /\ \A i \in DOMAIN opened.trace :
                       opened.trace[i] # "request_reviewer"
                /\ ready.cprs[pr].status = PENDING_REVIEWER_CHOICE
                /\ \A r \in BagToSet(opened.creviews) :
                       CopiesIn(r, ready.creviews) >= CopiesIn(r, opened.creviews)

----------------------------------------------------------------------------
(* The reminder branch of a cycle, hour by hour over a week *)

\* the hours the clock of SpecWeek walks through
MaxHours == 168

\* a review row with its requested_at column, which the query of the
\* reminder branch selects on
ReviewAt(pr, reviewer, requested_at, completed_at) ==
    [repo_name |-> pr.repo, pr_number |-> pr.number, reviewer |-> reviewer,
     requested_at |-> requested_at, completed_at |-> completed_at]

\* a PR opened at time 0 with arik-so requested; the clock stands at the
\* Monday a week later
InitWeek ==
    /\ prs = [pr \in PRKeys |-> PullRequest(PENDING_REVIEW, 0, "id")]
    /\ reviews = SetToBag({ReviewAt(pr, "arik-so", 0, Null) : pr \in PRKeys})
    /\ prompts = [pr \in AllPRKeys |-> 0]
    /\ now = TickMinutes
    /\ inflight = EmptyBag
    /\ loop = "running"
    /\ last = [op |-> "init", pr |-> NoKey, reviewer |-> None,
               signature |-> NoSignature, status |-> 0, trace |-> <<>>,
               remote |-> <<>>, picks |-> {}, before |-> 0]

\* time.sleep between two cycles, an hour of it
Hour ==
    /\ now + 60 < TickMinutes + MaxHours * 60
    /\ now' = now + 60
    /\ last' = [op |-> "hour", pr |-> NoKey, reviewer |-> None,
                signature |-> NoSignature, status |-> 0, trace |-> <<>>,
                remote |-> <<>>, picks |-> {}, before |-> 0]
    /\ UNCHANGED <<prs, reviews, prompts, inflight, loop>>

NextWeek ==
    \/ Reconcile
    \/ Hour

SpecWeek == InitWeek /\ [][NextWeek]_vars

\* Review.completed_at.is_(None), Review.requested_at <= reminder_threshold:
\* the outstanding rows past the reminder threshold at time t
PastThreshold(rs, t) ==
    {r \in BagToSet(rs) :
        /\ r.completed_at = Null
        /\ r.requested_at <= t - ReminderThresholdDays * MinutesPerDay}

InTrace(what, tr) == \E i \in DOMAIN tr : tr[i] = what

\* C14: a cycle on any of Monday..Friday whose store answers enters the
\* reminder branch when an outstanding review is past the reminder threshold,
\* and a cycle on Saturday from noon on or on Sunday posts no reminder.
C14_WeekdaysAndSaturdayMorning ==
    [][(last'.op = "reconcile" /\ ~InTrace("store_error", last'.trace)) =>
          /\ (weekday(now) \in 0..4 /\ PastThreshold(reviews, now) # {}) =>
                InTrace("reviews_needing_reminders", last'.trace)
          /\ (weekday(now) = 6 \/ (weekday(now) = 5 /\ hour(now) >= 12)) =>
                ~InTrace("create_comment", last'.trace)]_vars

\* C15: a cycle on a day on which reminders are sent (Monday is one) whose
\* store answers posts a reminder when an outstanding review is past the
\* reminder threshold.
C15_ReminderPosted ==
    [][(/\ last'.op = "reconcile"
        /\ ~InTrace("store_error", last'.trace)
        /\ weekday(now) = 0
        /\ PastThreshold(reviews, now) # {}) =>
          InTrace("create_comment", last'.trace)]_vars

----------------------------------------------------------------------------
(* The reminder thread under fairness *)

\* reminder_thread is started once and its body is while True with a sleep
\* of a minute: as long as the thread runs, a cycle that can start does start
NextLive ==
    \/ Opened(PRKeys)
    \/ Closed(PRKeys)
    \/ ReadyForReview(PRKeys)
    \/ ReviewRequested(PRKeys)
    \/ ReviewRequestRemoved(PRKeys)
    \/ Reconcile
    \/ Tick

SpecLive == Init /\ [][NextLive]_vars /\ WF_vars(Reconcile)

\* C16: whatever a cycle raises, the loop is still running afterwards, and
\* under fairness of the loop thread a cycle is started again and again.
C16_FailedCycleKeepsLoop ==
    /\ [](loop = "running")
    /\ []<>(last.op = "reconcile")

\* a cycle has raised (the store failed) and the loop is still running
C16_Witness ==
    /\ last.op = "reconcile"
    /\ last.status = 500
    /\ InTrace("store_error", last.trace)
    /\ loop = "running"

\* C17: a cycle in which the store fails does not end at the failure: it
\* rolls back and makes another attempt within the same cycle.
C17_StoreFailureRetried ==
    [][last'.op = "reconcile" =>
          \A i \in DOMAIN last'.trace :
              last'.trace[i] = "store_error" => i < Len(last'.trace)]_vars

----------------------------------------------------------------------------
(* The sync at startup *)

\* C18: after a sync that completed, every listed PR at or above the floor
\* that is open is tracked; every listed PR that is not open and that was
\* tracked is Closed with no outstanding review, its outstanding rows
\* completed and none deleted; the record and the rows of a PR that was not
\* listed are as before, and so is every row that was already completed.
C18_SyncPostcondition ==
    [][(last'.op = "sync" /\ last'.status = 0) =>
          /\ \A pr \in DOMAIN last'.remote :
                LET state == last'.remote[pr]
                IN  /\ (state = "open" /\ ~BelowFloor(pr)) => pr \in DOMAIN prs'
                    /\ (state = "closed" /\ ~BelowFloor(pr)
                          /\ pr \in DOMAIN prs) =>
                          /\ pr \in DOMAIN prs'
                          /\ prs'[pr].status = CLOSED
                          /\ OutstandingRows(reviews', pr) = {}
                          /\ BagCardinality(PRBag(reviews', pr))
                                = BagCardinality(PRBag(reviews, pr))
                    /\ (state = "absent" /\ pr \in DOMAIN prs) =>
                          /\ pr \in DOMAIN prs'
                          /\ prs'[pr] = prs[pr]
                          /\ PRBag(reviews', pr) = PRBag(reviews, pr)
          /\ \A r \in BagToSet(reviews) :
                r.completed_at # Null => CopiesIn(r, reviews') >= CopiesIn(r, reviews)]_vars

\* a sync has closed a tracked PR and completed the row of jkczyz, who never
\* submits a review
C18_Witness ==
    /\ last.op = "sync"
    /\ last.status = 0
    /\ \E pr \in DOMAIN prs :
          /\ last.remote[pr] = "closed"
          /\ prs[pr].status = CLOSED
          /\ OutstandingRows(reviews, pr) = {}
          /\ \E r \in ReviewRows(reviews, pr) :
                r.reviewer = "jkczyz" /\ r.completed_at = now

----------------------------------------------------------------------------
(* models.py: Review.review_duration *)

\* the longest review of SpecDuration, in hours
MaxSpanHours == 192

\* reviewer_tzs, and America/New_York for a login it does not name; the
\* offsets from UTC, in minutes, of a part of the year without a change of
\* clock (standard time)
utcoffset(reviewer) ==
    CASE reviewer \in {"TheBlueMatt", "valentinewallace"} -> 0 - 300
      [] reviewer \in {"wpaulino", "arik-so"} -> 0 - 480
      [] reviewer \in {"tnull", "joostjager"} -> 60
      [] reviewer = "jkczyz" -> 0 - 360
      [] OTHER -> 0 - 300

\* datetime.astimezone(tzinfo): the wall clock of the reviewer's zone
astimezone(t, reviewer) == t + utcoffset(reviewer)

\* datetime.date(), datetime.timetz() and datetime.replace(hour=.., minute=..)
date(t) == t \div MinutesPerDay
timetz(t) == t % MinutesPerDay
replace(t, h, m) == date(t) * MinutesPerDay + h * 60 + m

\* what an assert that fails leaves in place of a duration
AssertionError == Null

sub_times(end, start) == IF end >= start THEN end - start ELSE AssertionError

min(a, b) == IF a <= b THEN a ELSE b

\* a loop that takes Saturday and Sunday for working days
RECURSIVE review_duration_all_days(_, _, _)
review_duration_all_days(start_localized, end_localized, total_time) ==
    IF ~(start_localized < end_localized) THEN total_time
    ELSE LET workday_end == 17 * 60
         IN  IF hour(start_localized) < 9 \/ timetz(start_localized) > workday_end
             THEN review_duration_all_days(
                      replace(IF timetz(start_localized) > workday_end
                              THEN start_localized + MinutesPerDay
                              ELSE start_localized, 9, 0),
                      end_localized, total_time)
             ELSE LET workday_time == sub_times(workday_end, timetz(start_localized))
                  IN  IF date(start_localized) = date(end_localized)
                      THEN total_time
                             + min(workday_time, sub_times(timetz(end_localized),
                                                           timetz(start_localized)))
                      ELSE review_duration_all_days(
                               replace(start_localized, 18, start_localized % 60),
                               end_localized, total_time + workday_time)

\* a loop that stops at the end of the first working day it counts
RECURSIVE review_duration_first_day(_, _, _)
review_duration_first_day(start_localized, end_localized, total_time) ==
    IF ~(start_localized < end_localized) THEN total_time
    ELSE LET workday_end == 17 * 60
         IN  IF \/ weekday(start_localized) > 4
                \/ hour(start_localized) < 9
                \/ timetz(start_localized) > workday_end
             THEN review_duration_first_day(
                      replace(IF \/ weekday(start_localized) > 4
                                 \/ timetz(start_localized) > workday_end
                              THEN start_localized + MinutesPerDay
                              ELSE start_localized, 9, 0),
                      end_localized, total_time)
             ELSE LET workday_time == sub_times(workday_end, timetz(start_localized))
                  IN  IF date(start_localized) = date(end_localized)
                      THEN total_time
                             + min(workday_time, sub_times(timetz(end_localized),
                                                           timetz(start_localized)))
                      ELSE total_time + workday_time

\* the while loop of review_duration
RECURSIVE review_duration_loop(_, _, _)
review_duration_loop(start_localized, end_localized, total_time) ==
    IF ~(start_localized < end_localized) THEN total_time
    ELSE LET workday_end == 17 * 60
         IN  IF \/ weekday(start_localized) > 4
                \/ hour(start_localized) < 9
                \/ timetz(start_localized) > workday_end
             THEN review_duration_loop(
                      replace(IF \/ weekday(start_localized) > 4
                                 \/ timetz(start_localized) > workday_end
                              THEN start_localized + MinutesPerDay
                              ELSE start_localized, 9, 0),
                      end_localized, total_time)
             ELSE LET workday_time == sub_times(workday_end, timetz(start_localized))
                  IN  IF date(start_localized) = date(end_localized)
                      THEN total_time
                             + min(workday_time, sub_times(timetz(end_localized),
                                                           timetz(start_localized)))
                      ELSE review_duration_loop(
                               replace(start_localized, 18, start_localized % 60),
                               end_localized, total_time + workday_time)

\* Review.review_duration of row r read at time t, in minutes
review_duration(r, t) ==
    LET end == IF r.completed_at # Null THEN r.completed_at ELSE t
    IN  review_duration_loop(astimezone(r.requested_at, r.reviewer),
                             astimezone(end, r.reviewer), 0)

\* the reviewers of SpecDuration: one west of UTC, one east of it
DurationReviewers == {"arik-so", "joostjager"}

\* one review of a tracked PR, requested at a whole hour of the second week
\* and completed a whole number of hours later, or still outstanding at now
InitDuration ==
    /\ prs = [pr \in PRKeys |-> PullRequest(PENDING_REVIEW, 0, "id")]
    /\ prompts = [pr \in AllPRKeys |-> 0]
    /\ inflight = EmptyBag
    /\ loop = "running"
    /\ \E reviewer \in DurationReviewers, h \in 0..(MaxHours - 1),
          span \in 0..MaxSpanHours, completed \in BOOLEAN :
          LET requested_at == TickMinutes + h * 60
          IN  /\ now = requested_at + span * 60
              /\ reviews = SetToBag({ReviewAt(CHOOSE pr \in PRKeys : TRUE, reviewer,
                                              requested_at,
                                              IF completed THEN now ELSE Null)})
    /\ last = [op |-> "init", pr |-> NoKey, reviewer |-> None,
               signature |-> NoSignature, status |-> 0, trace |-> <<>>,
               remote |-> <<>>, picks |-> {}, before |-> 0]

\* review.review_duration read for a row of the table (reviewer_dashboard
\* reads it for every completed row); last keeps the row and the result
ReviewDuration ==
    /\ \E r \in BagToSet(reviews) :
          last' = [op |-> "review_duration", pr |-> NoKey, reviewer |-> r.reviewer,
                   signature |-> NoSignature, status |-> 200, trace |-> <<>>,
                   remote |-> <<>>, picks |-> {}, before |-> 0,
                   review |-> r, duration |-> review_duration(r, now)]
    /\ UNCHANGED <<prs, reviews, prompts, now, inflight, loop>>

NextDuration == ReviewDuration

SpecDuration == InitDuration /\ [][NextDuration]_vars

\* the start and the end of a review on the wall clock of its reviewer
LocalStart(r) == r.requested_at + utcoffset(r.reviewer)
LocalEnd(r, t) ==
    (IF r.completed_at # Null THEN r.completed_at ELSE t) + utcoffset(r.reviewer)

\* the hours of [from, to] that lie in a Monday-Friday 09:00-17:00 window,
\* counted one by one, in minutes
WorkingOverlap(from, to) ==
    60 * Cardinality({h \in (from \div 60)..(to \div 60) :
                         /\ from <= h * 60
                         /\ (h + 1) * 60 <= to
                         /\ (h \div 24) % 7 <= 4
                         /\ h % 24 >= 9
                         /\ h % 24 < 17})

\* times of the week on a wall clock whose week 0 starts at minute 0
At(d, h) == d * MinutesPerDay + h * 60

\* C19: review_duration of a review is the length of the overlap of
\* [start, end], taken on the reviewer's wall clock, with the Monday-Friday
\* 09:00-17:00 windows; Monday 16:00 to Tuesday 10:00 gives two hours.
C19_DurationIsWorkingOverlap ==
    last.op = "review_duration" =>
       LET from == LocalStart(last.review)
           to == LocalEnd(last.review, now)
       IN  /\ last.duration = WorkingOverlap(from, to)
           /\ (weekday(from) = 0 /\ hour(from) = 16 /\ to = from + 18 * 60) =>
                 last.duration = 2 * 60

\* the duration of a review from Monday 16:00 to Tuesday 10:00 has been read
C19_Witness ==
    /\ last.op = "review_duration"
    /\ weekday(LocalStart(last.review)) = 0
    /\ hour(LocalStart(last.review)) = 16
    /\ LocalEnd(last.review, now) = LocalStart(last.review) + 18 * 60
    /\ last.duration = 2 * 60

\* a review requested on a Friday at 10:00 and completed at 10:00 on the
\* Monday after it, on the reviewer's wall clock
FridayToMonday(r, t) ==
    /\ weekday(LocalStart(r)) = 4
    /\ hour(LocalStart(r)) = 10
    /\ r.completed_at # Null
    /\ LocalEnd(r, t) = LocalStart(r) + 3 * MinutesPerDay

\* C20 as it is stated: review_duration from Friday 10:00 to the following
\* Monday 10:00 is 7 hours.
C20_FridayToMondaySevenHours ==
    (last.op = "review_duration" /\ FridayToMonday(last.review, now)) =>
        last.duration = 7 * 60

\* C20: review_duration from Friday 10:00 to the following Monday 10:00 is
\* 8 hours: the 7 hours of Friday from 10:00 to 17:00 and the hour of Monday
\* from 09:00 to 10:00; Saturday and Sunday contribute nothing.
C20_FridayToMondayEightHours ==
    (last.op = "review_duration" /\ FridayToMonday(last.review, now)) =>
        /\ last.duration = 8 * 60
        /\ last.duration = WorkingOverlap(LocalStart(last.review),
                                          LocalStart(last.review) + 7 * 60)
                           + WorkingOverlap(LocalEnd(last.review, now) - 60,
                                            LocalEnd(last.review, now))

\* the duration of a review from Friday 10:00 to Monday 10:00 has been read
C20_Witness ==
    /\ last.op = "review_duration"
    /\ FridayToMonday(last.review, now)
    /\ last.duration = 8 * 60

----------------------------------------------------------------------------
(* get_recent_reviews over two repositories *)

\* a PR of each repository, the two with the same number
SameNumberKeys == {pr \in AllPRKeys : pr.number = 3634}

\* the rows a store of SpecHistogram is drawn from: completed at time 0,
\* completed a week later, or outstanding
HistogramRows ==
    {Review(pr, reviewer, completed_at) :
        pr \in SameNumberKeys, reviewer \in RequestedUsers,
        completed_at \in {Null, 0, TickMinutes}}

\* the tables of at most MaxReviews rows
HistogramBags ==
    {b \in UNION {[S -> 1..MaxReviews] :
                     S \in {T \in SUBSET HistogramRows : Cardinality(T) <= MaxReviews}} :
        BagCardinality(b) <= MaxReviews}

\* PRs of one of the sets of Ks tracked, with reviews of theirs in the table;
\* the clock stands an hour after the later completion time, or a week after
\* that
InitStore(Ks, status) ==
    /\ \E K \in Ks :
          /\ prs = [pr \in K |-> PullRequest(status[pr], 0, "id")]
          /\ reviews \in {b \in HistogramBags :
                             \A r \in DOMAIN b :
                                 \E pr \in K : r \in ReviewRows(b, pr)}
    /\ prompts = [pr \in AllPRKeys |-> 0]
    /\ now \in {TickMinutes + 60, 2 * TickMinutes + 60}
    /\ inflight = EmptyBag
    /\ loop = "running"
    /\ last = [op |-> "init", pr |-> NoKey, reviewer |-> None,
               signature |-> NoSignature, status |-> 0, trace |-> <<>>,
               remote |-> <<>>, picks |-> {}, before |-> 0]

\* some of the two PRs tracked
InitHistogram ==
    InitStore((SUBSET SameNumberKeys) \ {{}},
              [pr \in SameNumberKeys |-> PENDING_REVIEWER_CHOICE])

\* _auto_assign_next_reviewer, its call of get_recent_reviews; last keeps
\* the dict returned
RecentReviews ==
    /\ last' = [op |-> "get_recent_reviews", pr |-> NoKey, reviewer |-> None,
                signature |-> NoSignature, status |-> 0, trace |-> <<>>,
                remote |-> <<>>, picks |-> {}, before |-> 0,
                reviewer_counts |-> get_recent_reviews(prs, reviews, now)]
    /\ UNCHANGED <<prs, reviews, prompts, now, inflight, loop>>

NextHistogram == RecentReviews

SpecHistogram == InitHistogram /\ [][NextHistogram]_vars

\* the tracked PRs on which a reviewer has a row completed in the last
\* RecentDays days
RecentlyReviewed(p, rs, reviewer, t) ==
    {pr \in DOMAIN p :
        \E r \in ReviewRows(rs, pr) :
            /\ r.reviewer = reviewer
            /\ r.completed_at # Null
            /\ r.completed_at > t - RecentDays * MinutesPerDay}

\* C21: the histogram gives every reviewer the number of distinct PRs,
\* told apart by repository and number, on which the reviewer has a row
\* completed in the last 7 days.
C21_HistogramCountsDistinctPRs ==
    last.op = "get_recent_reviews" =>
        \A reviewer \in Users :
            count_of(last.reviewer_counts, reviewer)
                = Cardinality(RecentlyReviewed(prs, reviews, reviewer, now))

----------------------------------------------------------------------------
(* The selector over the stores of InitHistogram *)

\* cycles that assign a reviewer to the PR that waits for one
NextSelector == Reconcile

\* both PRs tracked: the one of ldk-node, whose author is no collaborator,
\* waits for a reviewer, the one of rust-lightning has been reviewed
InitSelector ==
    InitStore({SameNumberKeys},
              [pr \in SameNumberKeys |->
                  IF pr.repo = NODE THEN PENDING_REVIEWER_CHOICE ELSE REVIEWED])

SpecSelector == InitSelector /\ [][NextSelector]_vars

\* the candidates of a PR and their counts are {A: 2, B: 0, C: 0}
TwoZeroZero(p, rs, pr, t, A, B, C) ==
    /\ get_repo_collaborators(pr.repo) \ {AuthorOf(pr)} = {A, B, C}
    /\ Cardinality({A, B, C}) = 3
    /\ count_of(get_recent_reviews(p, rs, t), A) = 2
    /\ count_of(get_recent_reviews(p, rs, t), B) = 0
    /\ count_of(get_recent_reviews(p, rs, t), C) = 0

\* C22 as it is stated, with arik-so for A, jkczyz for B and TheBlueMatt for
\* C: with counts {A: 2, B: 0, C: 0} the selector chooses A or C, never B.
C22_ChoosesAOrC ==
    [][\A k \in last'.picks :
           TwoZeroZero(prs, reviews, k.pr, now, "arik-so", "jkczyz", "TheBlueMatt")
               => k.selected \in {"arik-so", "TheBlueMatt"}]_vars

\* C22: with candidates A, B and C and counts {A: 2, B: 0, C: 0} the selector
\* draws from B and C, both of them, and never chooses A.
C22_ChoosesBOrC ==
    [][\A k \in last'.picks : \A A, B, C \in Users :
           TwoZeroZero(prs, reviews, k.pr, now, A, B, C)
               => /\ k.possible = {B, C}
                  /\ k.selected \in {B, C}
                  /\ k.selected # A]_vars

\* arik-so has a count of 2 and the selector has chosen jkczyz, with
\* TheBlueMatt the other candidate it drew from
C22_Witness ==
    /\ last.op = "reconcile"
    /\ \E k \in last.picks :
          /\ TwoZeroZero(prs, reviews, k.pr, now, "arik-so", "jkczyz", "TheBlueMatt")
          /\ k.possible = {"jkczyz", "TheBlueMatt"}
          /\ k.selected = "jkczyz"
          /\ k.assigned

----------------------------------------------------------------------------
(* Events that find the store short of what they expect *)

\* C23: an 'opened' event whose first comment fails leaves the PR stored
\* with its status and no comment id; a 'review_requested' event for a PR
\* stored without a comment id that is not closed is answered with success
\* and leaves the PR in PENDING_REVIEW with an outstanding row of the
\* reviewer; a 'review_request_removed' event for such a PR is answered with
\* success and leaves no outstanding row of the reviewer.
C23_CommentFailureKeepsLocalEffects ==
    [][/\ (/\ last'.op = "opened"
           /\ last'.pr \notin DOMAIN prs
           /\ ~BelowFloor(last'.pr)
           /\ last'.pr \in DOMAIN prs'
           /\ prs'[last'.pr].initial_comment_id = None) =>
              prs'[last'.pr].status \in {PENDING_REVIEWER_CHOICE, DRAFT, PENDING_REVIEW}
       /\ (/\ last'.op \in {"review_requested", "review_request_removed"}
           /\ last'.pr \in DOMAIN prs
           /\ prs[last'.pr].initial_comment_id = None
           /\ prs[last'.pr].status # CLOSED) =>
              /\ last'.status = 200
              /\ last'.op = "review_requested" =>
                    /\ prs'[last'.pr].status = PENDING_REVIEW
                    /\ PendingRows(reviews', last'.pr, last'.reviewer) # {}
              /\ last'.op = "review_request_removed" =>
                    PendingRows(reviews', last'.pr, last'.reviewer) = {}]_vars

\* C24: an event other than 'opened' for a PR that is not tracked, with no
\* call to the code host failing, is answered with success and leaves the
\* store as it was.
C24_UntrackedSkipped ==
    [][(/\ last'.op \in WebhookOps \ {"opened", "unauthorized"}
        /\ last'.pr \in AllPRKeys
        /\ last'.pr \notin DOMAIN prs
        /\ ~InTrace("list_review_comments", last'.trace)) =>
           /\ last'.status = 200
           /\ prs' = prs
           /\ reviews' = reviews]_vars

----------------------------------------------------------------------------
(* Deliveries of 'opened' served next to each other *)

\* _handle_new_pr up to its first commit, which inserts the record: nothing
\* is read before it, so that a delivery for a PR that is tracked by then
\* fails on the primary key, as handle_new_pr has it.  A delivery whose
\* insert went through is in flight with the requested reviewers of its
\* payload.
OpenedBegin(K) ==
    \E pr \in K, draft \in BOOLEAN, requested \in RequestedSets :
        IF pr \in DOMAIN prs \/ pr.number < MIN_PR_ID[pr.repo]
        THEN webhook("opened", pr, None, GoodSignature,
                     handle_new_pr(Session(prs, reviews, prompts), pr, draft,
                                   requested, TRUE, now))
        ELSE /\ BagCardinality(inflight) < MaxInflight
             /\ prs' = (pr :> PullRequest(IF draft THEN DRAFT
                                          ELSE PENDING_REVIEWER_CHOICE, now, None))
                          @@ prs
             /\ inflight' = inflight (+) SetToBag({[pr |-> pr, requested |-> requested]})
             /\ last' = [op |-> "opened_begin", pr |-> pr, reviewer |-> None,
                         signature |-> GoodSignature, status |-> 0,
                         trace |-> <<"commit">>, remote |-> <<>>, picks |-> {},
                         before |-> 0]
             /\ UNCHANGED <<reviews, prompts, now, loop>>

\* ... and goes on: the first comment, the commit of its id, and the
\* requested reviewers of the payload
OpenedFinish ==
    \E x \in BagToSet(inflight), create_ok \in BOOLEAN :
        LET w2 == call(Session(prs, reviews, prompts), "create_comment")
            w3 == commit(IF create_ok
                         THEN [w2 EXCEPT !.prs[x.pr].initial_comment_id = "id"]
                         ELSE w2)
            w == review_requested_each(w3, x.pr, x.requested, now)
        IN  /\ BagCardinality(w.creviews) <= MaxReviews
            /\ prs' = w.cprs
            /\ reviews' = w.creviews
            /\ prompts' = w.prompts
            /\ inflight' = inflight (-) SetToBag({x})
            /\ last' = [op |-> "opened", pr |-> x.pr, reviewer |-> None,
                        signature |-> GoodSignature,
                        status |-> IF w.raised THEN 500 ELSE 200,
                        trace |-> w.trace, remote |-> <<>>, picks |-> {},
                        before |-> 0]
            /\ UNCHANGED <<now, loop>>

NextOpen ==
    \/ OpenedBegin(PRKeys)
    \/ OpenedFinish
    \/ Closed(PRKeys)
    \/ ConvertedToDraft(PRKeys)
    \/ ReviewRequested(PRKeys)
    \/ ReviewSubmitted(PRKeys)
    \/ Tick

SpecOpen == Init /\ [][NextOpen]_vars

\* the deliveries of 'opened' for a PR that are in flight
OpenedInflight(b, pr) ==
    BagCardinality([x \in {y \in BagToSet(b) : y.pr = pr} |-> b[x]])

\* C25: with deliveries of 'opened' served next to each other, a PR is
\* inserted once: at most one delivery for it is in flight, only that
\* delivery posts a first comment, on a record without a comment id, and a
\* comment id once stored stays; a delivery for a PR that is tracked already
\* posts nothing and leaves the records and the review rows as they were.
C25_OpenedOnce ==
    [][/\ \A pr \in PRKeys :
             /\ OpenedInflight(inflight', pr) <= 1
             /\ OpenedInflight(inflight', pr) = 1 =>
                   pr \in DOMAIN prs' /\ prs'[pr].initial_comment_id = None
             /\ pr \in DOMAIN prs =>
                   /\ pr \in DOMAIN prs'
                   /\ prs[pr].initial_comment_id # None =>
                         prs'[pr].initial_comment_id = prs[pr].initial_comment_id
       /\ (last'.op = "opened" /\ InTrace("create_comment", last'.trace)) =>
             /\ OpenedInflight(inflight, last'.pr) = 1
             /\ OpenedInflight(inflight', last'.pr) = 0
             /\ prs[last'.pr].initial_comment_id = None
       /\ (last'.op = "opened" /\ last'.pr \in DOMAIN prs /\ inflight' = inflight) =>
             /\ prs' = prs
             /\ reviews' = reviews
             /\ last'.trace = <<>>]_vars

\* a delivery of 'opened' for a PR that has its comment and an outstanding
\* review has been turned away
C25_Witness ==
    /\ last.op = "opened"
    /\ last.status = 500
    /\ last.trace = <<>>
    /\ last.pr \in DOMAIN prs
    /\ prs[last.pr].initial_comment_id # None
    /\ OutstandingRows(reviews, last.pr) # {}

----------------------------------------------------------------------------
(* The prompt for a second reviewer *)

\* the reviewers of a PR in total: the requested reviewers of the code host
\* plus the reviewers with a review row, the latter counted once each
ReviewersInTotal(rs, pr, requested) ==
    Cardinality(requested) + Cardinality({r.reviewer : r \in ReviewRows(rs, pr)})

\* C26: a review submitted for a tracked PR that is not closed, by a
\* reviewer with an outstanding row who is not the author, with every call to
\* the code host answered, leaves at most one prompt on the PR, and posts the
\* prompt exactly when the PR then has one reviewer in total and no prompt
\* was there before.
C26_PromptOnceWhenOneReviewer ==
    \A pr \in PRKeys, reviewer \in ReviewUsers, remote \in ReviewRemotes :
        (/\ pr \in DOMAIN prs
         /\ prs[pr].status # CLOSED
         /\ reviewer # AuthorOf(pr)
         /\ PendingRows(reviews, pr, reviewer) # {}
         /\ remote.list_ok /\ remote.ok /\ remote.comments_ok /\ remote.create_ok) =>
            LET w == handle_review_event(Session(prs, reviews, prompts), pr,
                                         reviewer, remote, now)
            IN  /\ w.prompts[pr] <= 1
                /\ w.prompts[pr] > prompts[pr]
                      <=> /\ prompts[pr] = 0
                          /\ ReviewersInTotal(w.creviews, pr, remote.requested) = 1

----------------------------------------------------------------------------
(* What a conversion to draft leaves alone *)

\* C27: a converted_to_draft event for a tracked PR leaves every row that
\* has a completion time, and every row of another PR, in the table as it
\* was.
C27_DraftKeepsCompletedRows ==
    [][(last'.op = "converted_to_draft" /\ last'.pr \in DOMAIN prs) =>
           \A r \in BagToSet(reviews) \cup BagToSet(reviews') :
               (r.completed_at # Null \/ r \notin ReviewRows(reviews, last'.pr)) =>
                   CopiesIn(r, reviews') = CopiesIn(r, reviews)]_vars

----------------------------------------------------------------------------
(* PRs in PENDING_REVIEW *)

\* C28: in every reachable state, a tracked PR in PENDING_REVIEW has at
\* least one outstanding review row.
C28_PendingReviewHasReviewer ==
    \A pr \in DOMAIN prs :
        prs[pr].status = PENDING_REVIEW => OutstandingRows(reviews, pr) # {}
====
